---- MODULE Spec2Model ----
(***************************************************************************)
(* Model of the scene lifecycle controller (class SceneManager) and of the *)
(* scene contract it consumes (BaseScene: container, load, update,         *)
(* unload).                                                                *)
(*                                                                         *)
(* loadScene is an async method: one action models each stretch of its     *)
(* body that runs without yielding, i.e. from the call (or from the        *)
(* settlement of the promise it awaits) up to the next await.  Scenes are  *)
(* the environment: a constructor may throw, load() and unload() settle    *)
(* later with either outcome.  Opacity is kept in fixed point, in units of *)
(* 1/AlphaOne; the clock is Date.now() in model milliseconds and only      *)
(* moves forward.                                                          *)
(***************************************************************************)
EXTENDS Integers, FiniteSets, Sequences, TLC

\* ------------------------------------------------------------------ bounds
\* number of loadScene calls made in one behaviour
MaxCalls == 3
\* the positive fade duration used by callers (the code's default is 300 ms)
FadeMs == 2
\* last value of the clock
MaxTime == 5

\* ------------------------------------------------------- program constants
Names == {"menu", "overworld"}
Classes == {"MenuScene", "OverworldScene"}
NoClass == "undefined"
NoScene == 0
\* the values a scene's constructor, load() or unload() may fail with
SceneErrors == {"ErrA", "ErrB"}
Durations == {0, FadeMs}
\* opacity 1 (a PIXI.Container is created with alpha = 1)
AlphaOne == FadeMs

CallIds == 1..MaxCalls
SceneIds == 1..MaxCalls

VARIABLES
  scenes,          \* SceneManager.scenes: name -> registered class
  currentScene,    \* SceneManager.currentScene: scene id, NoScene for null
  isTransitioning, \* SceneManager.isTransitioning
  stage,           \* app.stage.children: ids of the attached containers
  inst,            \* the scene instances constructed so far
  calls,           \* the loadScene invocations: position and outcome
  now,             \* Date.now()
  updateTarget,    \* scene that received the last update(), NoScene if none
  store,           \* useAuthStore: isAuthenticated and token
  apiToken,        \* ApiClient.token
  localStorage,    \* localStorage[STORAGE_KEYS.AUTH_TOKEN]
  loginPc,         \* useAuthStore.login: "idle" or "pending" (awaiting the API)
  logoutPc,        \* useAuthStore.logout: "idle" or "pending"
  loggedOut,       \* logout() has returned and no login has succeeded since
  page             \* "loaded": Game constructed; "running": Game.init was run

sceneVars == <<scenes, currentScene, isTransitioning, stage, inst, calls, now,
               updateTarget>>
authVars == <<store, apiToken, localStorage, loginPc, logoutPc, loggedOut,
              page>>
vars == <<scenes, currentScene, isTransitioning, stage, inst, calls, now,
          updateTarget, store, apiToken, localStorage, loginPc, logoutPc,
          loggedOut, page>>

\* the tokens the API hands out, and null
Tokens == {"tokenA", "tokenB"}
NoToken == "null"
\* the ways the API answers a failed request: 401, or anything else (another
\* status, a timeout, a network error)
Failures == {"401", "other"}

\* the initial state of useAuthStore
InitialStore == [isAuthenticated |-> FALSE, token |-> NoToken]

Min(a, b) == IF a <= b THEN a ELSE b

\* a scene object that has not been constructed
NoInstance == [cls |-> NoClass, phase |-> "none", alpha |-> AlphaOne,
               unloads |-> 0, raised |-> "none"]

\* a loadScene call that has not been made.  failed names the statement
\* that threw, error is the value the call's promise rejects with.
NoCall == [pc |-> "idle", name |-> "", duration |-> 0, SceneClass |-> NoClass,
           accepted |-> FALSE, oldScene |-> NoScene, newScene |-> NoScene,
           result |-> "none", failed |-> "none", error |-> "none",
           startTime |-> 0, startAlpha |-> 0]

\* new SceneClass(app, this): BaseScene's constructor makes the container
NewInstance(cls) == [cls |-> cls, phase |-> "constructed", alpha |-> AlphaOne,
                     unloads |-> 0, raised |-> "none"]

Constructed == {s \in SceneIds : inst[s].phase # "none"}
\* a factory that hands out the scene it made last
FreshSceneReused ==
  IF Constructed = {} THEN 1 ELSE Cardinality(Constructed)

\* identity of the next object a constructor returns
FreshScene == Cardinality(Constructed) + 1

Issued == {c \in CallIds : calls[c].result # "none"}
NextCall == Cardinality(Issued) + 1

\* ------------------------------------------------------------ fade ramps
\* a progress that is not clamped at 1
ProgressUnclamped(elapsed, duration) == elapsed

\* progress = Math.min(elapsed / duration, 1), as a numerator over duration
Progress(elapsed, duration) == Min(elapsed, duration)

\* container.alpha = startAlpha * (1 - progress)
FadeOutAlpha(startAlpha, elapsed, duration) ==
  (startAlpha * (duration - Progress(elapsed, duration))) \div duration

\* a fade-in that ramps the wrong way
FadeInAlphaInverted(elapsed, duration) ==
  (AlphaOne * (duration - Progress(elapsed, duration))) \div duration

\* container.alpha = progress
FadeInAlpha(elapsed, duration) ==
  (AlphaOne * Progress(elapsed, duration)) \div duration

\* --------------------------------------------------------------- initial
Init ==
  /\ scenes = [n \in Names |-> NoClass]
  /\ currentScene = NoScene
  /\ isTransitioning = FALSE
  /\ stage = {}
  /\ inst = [s \in SceneIds |-> NoInstance]
  /\ calls = [c \in CallIds |-> NoCall]
  /\ now = 0
  /\ updateTarget = NoScene
  /\ store = InitialStore
  /\ apiToken = NoToken
  /\ localStorage = NoToken
  /\ loginPc = "idle"
  /\ logoutPc = "idle"
  /\ loggedOut = FALSE
  /\ page = "running"

\* a registration that also resets the transition flag
RegisterSceneResets(name, SceneClass) ==
  /\ scenes' = [scenes EXCEPT ![name] = SceneClass]
  /\ isTransitioning' = FALSE
  /\ UNCHANGED <<currentScene, stage, inst, calls, now, updateTarget>>

\* a registration that keeps the class registered first
RegisterSceneKeepFirst(name, SceneClass) ==
  /\ scenes' = IF scenes[name] = NoClass
               THEN [scenes EXCEPT ![name] = SceneClass]
               ELSE scenes
  /\ UNCHANGED <<currentScene, isTransitioning, stage, inst, calls, now,
                 updateTarget>>

\* ----------------------------------------------------------- registerScene
RegisterScene(name, SceneClass) ==
  /\ scenes' = [scenes EXCEPT ![name] = SceneClass]
  /\ UNCHANGED <<currentScene, isTransitioning, stage, inst, calls, now,
                 updateTarget>>

\* ------------------------------------------------------ pieces of loadScene
\* a call that has returned: its promise is settled, its locals are gone
Settled(accepted, result, failed) ==
  [NoCall EXCEPT !.pc = "done", !.accepted = accepted, !.result = result,
                 !.failed = failed]

\* a statement of call c throws e: e is what the catch block receives
Raise(cs, c, e) == [cs EXCEPT ![c].error = e]

\* a catch block without the finally: the flag keeps its value
ThrowStuck(c, cs, err) ==
  /\ calls' = [cs EXCEPT ![c] = [Settled(cs[c].accepted, "rejected", err)
                                   EXCEPT !.error = cs[c].error]]
  /\ isTransitioning' = isTransitioning

\* a catch block that logs the error and does not rethrow it
ThrowSwallowed(c, cs, err) ==
  /\ calls' = [cs EXCEPT ![c] = Settled(cs[c].accepted, "resolved", "none")]
  /\ isTransitioning' = FALSE

\* a catch block that throws a new error naming the failed statement
ThrowAnnotated(c, cs, err) ==
  /\ calls' = [cs EXCEPT ![c] = [Settled(cs[c].accepted, "rejected", err)
                                   EXCEPT !.error = err]]
  /\ isTransitioning' = FALSE

\* the catch and finally blocks: throw error, isTransitioning = false
Throw(c, cs, err) ==
  /\ calls' = [cs EXCEPT ![c] = [Settled(cs[c].accepted, "rejected", err)
                                   EXCEPT !.error = cs[c].error]]
  /\ isTransitioning' = FALSE

\* normal completion that leaves the flag as it is
ReturnStuck(c, cs) ==
  /\ calls' = [cs EXCEPT ![c] = Settled(cs[c].accepted, "resolved", "none")]
  /\ isTransitioning' = isTransitioning

\* normal completion of the try block, then finally
Return(c, cs) ==
  /\ calls' = [cs EXCEPT ![c] = Settled(cs[c].accepted, "resolved", "none")]
  /\ isTransitioning' = FALSE

\* "Create and load new scene": the constructor runs and may throw; load()
\* is invoked and awaited.  cs, is, tr are the calls, the instances and the
\* flag as the preceding statements left them.
CreateAndLoad(c, cs, is, tr, throws) ==
  IF throws
  THEN /\ \E e \in SceneErrors : Throw(c, Raise(cs, c, e), "constructor")
       /\ inst' = is
  ELSE /\ inst' = [is EXCEPT ![FreshScene] =
                     [NewInstance(cs[c].SceneClass) EXCEPT !.phase = "loading"]]
       /\ calls' = [cs EXCEPT ![c].pc = "load", ![c].newScene = FreshScene]
       /\ isTransitioning' = tr

\* "Unload current scene": this.currentScene.unload() is invoked and awaited
InvokeUnload(c, cs, is, tr) ==
  /\ inst' = [is EXCEPT ![currentScene].phase = "unloading",
                        ![currentScene].unloads = @ + 1,
                        ![currentScene].raised = "none"]
  /\ calls' = [cs EXCEPT ![c].pc = "unload", ![c].oldScene = currentScene]
  /\ isTransitioning' = tr

\* a removeChild that was forgotten
RemoveChildNoop(children, child) == children

\* app.stage.removeChild(container)
RemoveChild(children, child) == children \ {child}

\* app.stage.addChild(container)
AddChild(children, child) == children \cup {child}

\* loadScene without its re-entrancy guard
TransitionGuardOff == FALSE

\* the guard at the head of loadScene
TransitionGuard == isTransitioning

\* a lookup that falls back to the menu class for an unknown name
LookupAny(name) == IF scenes[name] = NoClass THEN "MenuScene" ELSE scenes[name]

\* this.scenes.get(name)
Lookup(name) == scenes[name]

\* a call that threw new Error(`... not registered`)
NotRegistered ==
  [Settled(FALSE, "rejected", "not registered") EXCEPT !.error = "not registered"]

\* a loadScene that looks the name up before it tests the flag
LoadSceneLookupFirst(name, transitionDuration) ==
  /\ NextCall \in CallIds
  /\ LET c == NextCall
         base == [calls EXCEPT ![c].name = name,
                               ![c].duration = transitionDuration,
                               ![c].result = "pending"]
     IN
     IF Lookup(name) = NoClass
     THEN /\ calls' = [base EXCEPT ![c] = NotRegistered]
          /\ UNCHANGED <<scenes, currentScene, isTransitioning, stage, inst,
                         now, updateTarget>>
     ELSE IF TransitionGuard
     THEN /\ calls' = [base EXCEPT ![c] = Settled(FALSE, "resolved", "none")]
          /\ UNCHANGED <<scenes, currentScene, isTransitioning, stage, inst,
                         now, updateTarget>>
     ELSE LET cs == [base EXCEPT ![c].accepted = TRUE,
                                 ![c].SceneClass = Lookup(name)]
          IN
          /\ IF currentScene # NoScene /\ transitionDuration > 0
             THEN /\ inst' = [inst EXCEPT ![currentScene].alpha =
                                FadeOutAlpha(@, 0, transitionDuration)]
                  /\ calls' = [cs EXCEPT ![c].pc = "fadeOut",
                                         ![c].oldScene = currentScene,
                                         ![c].startTime = now,
                                         ![c].startAlpha = inst[currentScene].alpha]
                  /\ isTransitioning' = TRUE
             ELSE IF currentScene # NoScene
             THEN InvokeUnload(c, cs, inst, TRUE)
             ELSE \E throws \in BOOLEAN : CreateAndLoad(c, cs, inst, TRUE, throws)
          /\ UNCHANGED <<scenes, currentScene, stage, now, updateTarget>>

\* ---------------------------------------------------------------- loadScene
\* the call itself: everything up to the first await
LoadScene(name, transitionDuration) ==
  /\ NextCall \in CallIds
  /\ LET c == NextCall
         base == [calls EXCEPT ![c].name = name,
                               ![c].duration = transitionDuration,
                               ![c].result = "pending"]
     IN
     IF TransitionGuard
     THEN \* console.warn; return
          /\ calls' = [base EXCEPT ![c] = Settled(FALSE, "resolved", "none")]
          /\ UNCHANGED <<scenes, currentScene, isTransitioning, stage, inst,
                         now, updateTarget>>
     ELSE IF Lookup(name) = NoClass
     THEN \* throw new Error(... not registered)
          /\ calls' = [base EXCEPT ![c] = NotRegistered]
          /\ UNCHANGED <<scenes, currentScene, isTransitioning, stage, inst,
                         now, updateTarget>>
     ELSE LET cs == [base EXCEPT ![c].accepted = TRUE,
                                 ![c].SceneClass = Lookup(name)]
          IN
          /\ IF currentScene # NoScene /\ transitionDuration > 0
             THEN \* fadeOut: first animate() runs at once, elapsed = 0
                  /\ inst' = [inst EXCEPT ![currentScene].alpha =
                                FadeOutAlpha(@, 0, transitionDuration)]
                  /\ calls' = [cs EXCEPT ![c].pc = "fadeOut",
                                         ![c].oldScene = currentScene,
                                         ![c].startTime = now,
                                         ![c].startAlpha = inst[currentScene].alpha]
                  /\ isTransitioning' = TRUE
             ELSE IF currentScene # NoScene
             THEN InvokeUnload(c, cs, inst, TRUE)
             ELSE \E throws \in BOOLEAN : CreateAndLoad(c, cs, inst, TRUE, throws)
          /\ UNCHANGED <<scenes, currentScene, stage, now, updateTarget>>

\* requestAnimationFrame delivers animate() of the fade-out; the container
\* is the one fadeOut was called with
AnimateFadeOut(c) ==
  /\ calls[c].pc = "fadeOut"
  /\ LET elapsed == now - calls[c].startTime
         d == calls[c].duration
         faded == [inst EXCEPT ![calls[c].oldScene].alpha =
                     FadeOutAlpha(calls[c].startAlpha, elapsed, d)]
     IN
     IF Progress(elapsed, d) < d
     THEN /\ inst' = faded
          /\ UNCHANGED <<calls, isTransitioning>>
     ELSE \* resolve(); loadScene goes on to "Unload current scene"
          IF currentScene # NoScene
          THEN InvokeUnload(c, calls, faded, isTransitioning)
          ELSE \E throws \in BOOLEAN :
                 CreateAndLoad(c, calls, faded, isTransitioning, throws)
  /\ UNCHANGED <<scenes, currentScene, stage, now, updateTarget>>

\* the awaited unload() resolves: detach, clear the slot, create the new scene
UnloadResolves(c) ==
  /\ calls[c].pc = "unload"
  /\ inst[calls[c].oldScene].phase = "unloading"
  /\ LET unloaded == [inst EXCEPT ![calls[c].oldScene].phase = "unloaded"]
     IN
     IF currentScene = NoScene
     THEN \* this.currentScene.container: TypeError on null
          /\ Throw(c, Raise(calls, c, "TypeError"), "TypeError")
          /\ inst' = unloaded
          /\ UNCHANGED <<stage, currentScene>>
     ELSE /\ stage' = RemoveChild(stage, currentScene)
          /\ currentScene' = NoScene
          /\ \E throws \in BOOLEAN :
               CreateAndLoad(c, calls, unloaded, isTransitioning, throws)
  /\ UNCHANGED <<scenes, now, updateTarget>>

\* an unload() rejection after which the container is detached all the same
UnloadRejectsDetach(c) ==
  /\ calls[c].pc = "unload"
  /\ inst[calls[c].oldScene].phase = "unloading"
  /\ \E e \in SceneErrors :
       /\ inst' = [inst EXCEPT ![calls[c].oldScene].phase = "unloadFailed",
                               ![calls[c].oldScene].raised = e]
       /\ Throw(c, Raise(calls, c, e), "unload")
  /\ stage' = RemoveChild(stage, calls[c].oldScene)
  /\ UNCHANGED <<scenes, currentScene, now, updateTarget>>

\* an unload() rejection after which the slot is cleared
UnloadRejectsClear(c) ==
  /\ calls[c].pc = "unload"
  /\ inst[calls[c].oldScene].phase = "unloading"
  /\ \E e \in SceneErrors :
       /\ inst' = [inst EXCEPT ![calls[c].oldScene].phase = "unloadFailed",
                               ![calls[c].oldScene].raised = e]
       /\ Throw(c, Raise(calls, c, e), "unload")
  /\ currentScene' = NoScene
  /\ UNCHANGED <<scenes, stage, now, updateTarget>>

\* the awaited unload() rejects: catch, rethrow, finally
UnloadRejects(c) ==
  /\ calls[c].pc = "unload"
  /\ inst[calls[c].oldScene].phase = "unloading"
  /\ \E e \in SceneErrors :
       /\ inst' = [inst EXCEPT ![calls[c].oldScene].phase = "unloadFailed",
                               ![calls[c].oldScene].raised = e]
       /\ Throw(c, Raise(calls, c, e), "unload")
  /\ UNCHANGED <<scenes, currentScene, stage, now, updateTarget>>

\* a load() resolution that sets the opacity to 0 whatever the duration
LoadResolvesDim(c) ==
  /\ calls[c].pc = "load"
  /\ LET s == calls[c].newScene
         d == calls[c].duration
     IN
     /\ inst[s].phase = "loading"
     /\ stage' = AddChild(stage, s)
     /\ currentScene' = s
     /\ IF d > 0
        THEN /\ inst' = [inst EXCEPT ![s].phase = "loaded",
                                     ![s].alpha = FadeInAlpha(0, d)]
             /\ calls' = [calls EXCEPT ![c].pc = "fadeIn",
                                       ![c].startTime = now]
             /\ UNCHANGED isTransitioning
        ELSE /\ inst' = [inst EXCEPT ![s].phase = "loaded", ![s].alpha = 0]
             /\ Return(c, calls)
  /\ UNCHANGED <<scenes, now, updateTarget>>

\* a load() resolution that attaches the scene and yields before alpha = 0
LoadResolvesOpaque(c) ==
  /\ calls[c].pc = "load"
  /\ LET s == calls[c].newScene
         d == calls[c].duration
     IN
     /\ inst[s].phase = "loading"
     /\ stage' = AddChild(stage, s)
     /\ currentScene' = s
     /\ IF d > 0
        THEN /\ inst' = [inst EXCEPT ![s].phase = "loaded"]
             /\ calls' = [calls EXCEPT ![c].pc = "fadeIn",
                                       ![c].startTime = now]
             /\ UNCHANGED isTransitioning
        ELSE /\ inst' = [inst EXCEPT ![s].phase = "loaded"]
             /\ Return(c, calls)
  /\ UNCHANGED <<scenes, now, updateTarget>>

\* a load() resolution that attaches the scene without installing it
LoadResolvesNoInstall(c) ==
  /\ calls[c].pc = "load"
  /\ LET s == calls[c].newScene
         d == calls[c].duration
     IN
     /\ inst[s].phase = "loading"
     /\ stage' = AddChild(stage, s)
     /\ UNCHANGED currentScene
     /\ IF d > 0
        THEN /\ inst' = [inst EXCEPT ![s].phase = "loaded",
                                     ![s].alpha = FadeInAlpha(0, d)]
             /\ calls' = [calls EXCEPT ![c].pc = "fadeIn",
                                       ![c].startTime = now]
             /\ UNCHANGED isTransitioning
        ELSE /\ inst' = [inst EXCEPT ![s].phase = "loaded"]
             /\ Return(c, calls)
  /\ UNCHANGED <<scenes, now, updateTarget>>

\* newScene.load() resolves: attach, install, start the fade-in or finish
LoadResolves(c) ==
  /\ calls[c].pc = "load"
  /\ LET s == calls[c].newScene
         d == calls[c].duration
     IN
     /\ inst[s].phase = "loading"
     /\ stage' = AddChild(stage, s)
     /\ currentScene' = s
     /\ IF d > 0
        THEN \* alpha = 0; fadeIn: first animate() runs at once, elapsed = 0
             /\ inst' = [inst EXCEPT ![s].phase = "loaded",
                                     ![s].alpha = FadeInAlpha(0, d)]
             /\ calls' = [calls EXCEPT ![c].pc = "fadeIn",
                                       ![c].startTime = now]
             /\ UNCHANGED isTransitioning
        ELSE /\ inst' = [inst EXCEPT ![s].phase = "loaded"]
             /\ Return(c, calls)
  /\ UNCHANGED <<scenes, now, updateTarget>>

\* a load() rejection that finds the new scene already installed
LoadRejectsInstalled(c) ==
  /\ calls[c].pc = "load"
  /\ inst[calls[c].newScene].phase = "loading"
  /\ \E e \in SceneErrors :
       /\ inst' = [inst EXCEPT ![calls[c].newScene].phase = "loadFailed",
                               ![calls[c].newScene].raised = e]
       /\ Throw(c, Raise(calls, c, e), "load")
  /\ currentScene' = calls[c].newScene
  /\ stage' = AddChild(stage, calls[c].newScene)
  /\ UNCHANGED <<scenes, now, updateTarget>>

\* newScene.load() rejects: catch, rethrow, finally
LoadRejects(c) ==
  /\ calls[c].pc = "load"
  /\ inst[calls[c].newScene].phase = "loading"
  /\ \E e \in SceneErrors :
       /\ inst' = [inst EXCEPT ![calls[c].newScene].phase = "loadFailed",
                               ![calls[c].newScene].raised = e]
       /\ Throw(c, Raise(calls, c, e), "load")
  /\ UNCHANGED <<scenes, currentScene, stage, now, updateTarget>>

\* a fade-in loop that reschedules itself whatever the progress
AnimateFadeInForever(c) ==
  /\ calls[c].pc = "fadeIn"
  /\ LET elapsed == now - calls[c].startTime
         d == calls[c].duration
         s == calls[c].newScene
     IN
     /\ inst' = [inst EXCEPT ![s].alpha = FadeInAlpha(elapsed, d)]
     /\ UNCHANGED <<calls, isTransitioning>>
  /\ UNCHANGED <<scenes, currentScene, stage, now, updateTarget>>

\* requestAnimationFrame delivers animate() of the fade-in
AnimateFadeIn(c) ==
  /\ calls[c].pc = "fadeIn"
  /\ LET elapsed == now - calls[c].startTime
         d == calls[c].duration
         s == calls[c].newScene
     IN
     /\ inst' = [inst EXCEPT ![s].alpha = FadeInAlpha(elapsed, d)]
     /\ IF Progress(elapsed, d) < d
        THEN UNCHANGED <<calls, isTransitioning>>
        ELSE Return(c, calls)
  /\ UNCHANGED <<scenes, currentScene, stage, now, updateTarget>>

\* an update() that goes to the scene constructed last, installed or not
UpdateLatest ==
  /\ updateTarget' = Cardinality(Constructed)
  /\ UNCHANGED <<scenes, currentScene, isTransitioning, stage, inst, calls,
                 now>>

\* an update() that is suspended while a transition is in progress
UpdatePaused ==
  /\ updateTarget' = IF isTransitioning THEN NoScene ELSE currentScene
  /\ UNCHANGED <<scenes, currentScene, isTransitioning, stage, inst, calls,
                 now>>

\* ------------------------------------------------------------------ update
Update ==
  /\ updateTarget' = currentScene
  /\ UNCHANGED <<scenes, currentScene, isTransitioning, stage, inst, calls,
                 now>>

\* ------------------------------------------------------------------- clock
\* a clock whose tick gives up a load() that is still pending
TickTimeout ==
  /\ now < MaxTime
  /\ now' = now + 1
  /\ calls' = [c \in CallIds |->
                IF calls[c].pc = "load"
                THEN Settled(TRUE, "rejected", "timeout") ELSE calls[c]]
  /\ isTransitioning' =
       IF \E c \in CallIds : calls[c].pc = "load" THEN FALSE
       ELSE isTransitioning
  /\ UNCHANGED <<scenes, currentScene, stage, inst, updateTarget>>

\* Date.now() is read by the fade loops only, so the clock is advanced only
\* while a fade waits for its next animation frame
FadePending == \E c \in CallIds : calls[c].pc \in {"fadeOut", "fadeIn"}

Tick ==
  /\ now < MaxTime
  /\ FadePending
  /\ now' = now + 1
  /\ UNCHANGED <<scenes, currentScene, isTransitioning, stage, inst, calls,
                 updateTarget>>

\* the scene controller on its own: the auth state is left alone
Next ==
  \/ (\E n \in Names, k \in Classes : RegisterScene(n, k)) /\ UNCHANGED authVars
  \/ (\E n \in Names, d \in Durations : LoadScene(n, d)) /\ UNCHANGED authVars
  \/ (\E c \in CallIds : AnimateFadeOut(c)) /\ UNCHANGED authVars
  \/ (\E c \in CallIds : UnloadResolves(c)) /\ UNCHANGED authVars
  \/ (\E c \in CallIds : UnloadRejects(c)) /\ UNCHANGED authVars
  \/ (\E c \in CallIds : LoadResolves(c)) /\ UNCHANGED authVars
  \/ (\E c \in CallIds : LoadRejects(c)) /\ UNCHANGED authVars
  \/ (\E c \in CallIds : AnimateFadeIn(c)) /\ UNCHANGED authVars
  \/ Update /\ UNCHANGED authVars
  \/ Tick /\ UNCHANGED authVars

Spec == Init /\ [][Next]_vars

\* the event loop: a promise that settles has its continuation run, an
\* animation frame that was requested is delivered, and the clock advances
Fairness ==
  /\ \A c \in CallIds :
       /\ WF_vars(AnimateFadeOut(c) /\ UNCHANGED authVars)
       /\ WF_vars((UnloadResolves(c) \/ UnloadRejects(c)) /\ UNCHANGED authVars)
       /\ WF_vars((LoadResolves(c) \/ LoadRejects(c)) /\ UNCHANGED authVars)
       /\ WF_vars(AnimateFadeIn(c) /\ UNCHANGED authVars)
  /\ WF_vars(Tick /\ UNCHANGED authVars)

FairSpec == Spec /\ Fairness

\* ------------------------------------------------- authentication and Game
\* ApiClient.setToken / clearToken write the field and localStorage together
SetToken(t) == apiToken' = t /\ localStorage' = t
ClearToken == apiToken' = NoToken /\ localStorage' = NoToken

\* ApiClient.request on a failed request: a 401 clears the token
RequestFails(status) ==
  IF status = "401" THEN ClearToken ELSE UNCHANGED <<apiToken, localStorage>>

\* authService.isAuthenticated()
IsAuthenticated == apiToken # NoToken

\* useAuthStore.login up to the await of authService.login
Login ==
  /\ page = "running" /\ loginPc = "idle"
  /\ loginPc' = "pending"
  /\ UNCHANGED <<store, apiToken, localStorage, logoutPc, loggedOut, page>>
  /\ UNCHANGED sceneVars

\* the login request succeeds with token t
LoginResolves(t) ==
  /\ loginPc = "pending"
  /\ SetToken(t)
  /\ store' = [isAuthenticated |-> TRUE, token |-> t]
  /\ loginPc' = "idle"
  /\ loggedOut' = FALSE
  /\ UNCHANGED <<logoutPc, page>>
  /\ UNCHANGED sceneVars

\* the login request fails: the catch block resets the store and rethrows
LoginRejects(status) ==
  /\ loginPc = "pending"
  /\ RequestFails(status)
  /\ store' = [isAuthenticated |-> FALSE, token |-> NoToken]
  /\ loginPc' = "idle"
  /\ UNCHANGED <<logoutPc, loggedOut, page>>
  /\ UNCHANGED sceneVars

\* useAuthStore.logout up to the await of authService.logout
Logout ==
  /\ page = "running" /\ logoutPc = "idle"
  /\ logoutPc' = "pending"
  /\ UNCHANGED <<store, apiToken, localStorage, loginPc, loggedOut, page>>
  /\ UNCHANGED sceneVars

\* the logout request succeeds: authService.logout clears the token, the
\* store is reset
LogoutResolves ==
  /\ logoutPc = "pending"
  /\ ClearToken
  /\ store' = [isAuthenticated |-> FALSE, token |-> NoToken]
  /\ logoutPc' = "idle"
  /\ loggedOut' = TRUE
  /\ UNCHANGED <<loginPc, page>>
  /\ UNCHANGED sceneVars

\* the logout request fails: authService.logout throws before clearToken,
\* useAuthStore.logout logs the error and resets the store
LogoutRejects(status) ==
  /\ logoutPc = "pending"
  /\ RequestFails(status)
  /\ store' = [isAuthenticated |-> FALSE, token |-> NoToken]
  /\ logoutPc' = "idle"
  /\ loggedOut' = TRUE
  /\ UNCHANGED <<loginPc, page>>
  /\ UNCHANGED sceneVars

\* the table after Game.registerScenes
RegisteredScenes ==
  [n \in Names |-> IF n = "menu" THEN "MenuScene" ELSE "OverworldScene"]

\* useAuthStore.loadTokenFromStorage applied to store state st
LoadTokenFromStorage(st) ==
  IF IsAuthenticated THEN [st EXCEPT !.isAuthenticated = TRUE] ELSE st

\* Game.init: load the auth state, choose the initial scene, load it with
\* the default transition duration
GameInit ==
  /\ page = "loaded"
  /\ page' = "running"
  /\ store' = LoadTokenFromStorage(store)
  /\ LET initialScene == IF store'.isAuthenticated THEN "overworld" ELSE "menu"
     IN  LoadScene(initialScene, FadeMs)
  /\ UNCHANGED <<apiToken, localStorage, loginPc, logoutPc, loggedOut>>

\* the page is loaded again: the modules are evaluated anew (ApiClient reads
\* its token from localStorage, the store is in its initial state, Game
\* makes a SceneManager and registers the scenes); pending requests are lost
Reload ==
  /\ page = "running"
  /\ page' = "loaded"
  /\ apiToken' = localStorage
  /\ store' = InitialStore
  /\ loginPc' = "idle" /\ logoutPc' = "idle"
  /\ scenes' = RegisteredScenes
  /\ currentScene' = NoScene
  /\ isTransitioning' = FALSE
  /\ stage' = {}
  /\ inst' = [s \in SceneIds |-> NoInstance]
  /\ calls' = [c \in CallIds |-> NoCall]
  /\ updateTarget' = NoScene
  /\ UNCHANGED <<localStorage, loggedOut, now>>

\* a freshly loaded page, nobody logged in
AuthInit ==
  /\ scenes = RegisteredScenes
  /\ currentScene = NoScene
  /\ isTransitioning = FALSE
  /\ stage = {}
  /\ inst = [s \in SceneIds |-> NoInstance]
  /\ calls = [c \in CallIds |-> NoCall]
  /\ now = 0
  /\ updateTarget = NoScene
  /\ store = InitialStore
  /\ apiToken = NoToken
  /\ localStorage = NoToken
  /\ loginPc = "idle"
  /\ logoutPc = "idle"
  /\ loggedOut = FALSE
  /\ page = "loaded"

\* the game from page load on: Game.init's loadScene runs to its end while
\* the user logs in and out and reloads the page
AuthNext ==
  \/ GameInit
  \/ Reload
  \/ Login
  \/ \E t \in Tokens : LoginResolves(t)
  \/ \E status \in Failures : LoginRejects(status)
  \/ Logout
  \/ LogoutResolves
  \/ \E status \in Failures : LogoutRejects(status)
  \/ (\E c \in CallIds : LoadResolves(c)) /\ UNCHANGED authVars
  \/ (\E c \in CallIds : LoadRejects(c)) /\ UNCHANGED authVars
  \/ (\E c \in CallIds : AnimateFadeIn(c)) /\ UNCHANGED authVars
  \/ Update /\ UNCHANGED authVars
  \/ Tick /\ UNCHANGED authVars

AuthSpec == AuthInit /\ [][AuthNext]_vars

\* ------------------------------------------------------------- vocabulary
\* call c is made in this step
CallMade(c) == calls[c].result = "none" /\ calls'[c].result # "none"

\* call c passed both checks and has not returned yet
InFlight(c) == calls[c].accepted /\ calls[c].result = "pending"

\* call c was turned away by the re-entrancy guard
Ignored(c) == calls[c] = Settled(FALSE, "resolved", "none")

\* call c threw the not-registered error
Unknown(c) == calls[c] = NotRegistered

\* rec is the record of an accepted call that threw at the given statement
FailedAt(rec, failed) ==
  /\ rec.error \in SceneErrors
  /\ rec = [Settled(TRUE, "rejected", failed) EXCEPT !.error = rec.error]

\* call c, accepted, returns or throws in this step
Terminates(c) ==
  /\ calls'[c].accepted
  /\ calls[c].result \in {"none", "pending"}
  /\ calls'[c].result \in {"resolved", "rejected"}

\* the unload() that call c awaits rejects in this step
UnloadRejected(c) ==
  /\ calls[c].pc = "unload"
  /\ inst[calls[c].oldScene].phase = "unloading"
  /\ inst'[calls[c].oldScene].phase = "unloadFailed"

\* the load() that call c awaits rejects in this step
LoadRejected(c) ==
  /\ calls[c].pc = "load"
  /\ inst[calls[c].newScene].phase = "loading"
  /\ inst'[calls[c].newScene].phase = "loadFailed"

\* no accepted call is in progress
Idle == ~ \E c \in CallIds : InFlight(c)

TypeOK ==
  /\ scenes \in [Names -> Classes \cup {NoClass}]
  /\ currentScene \in SceneIds \cup {NoScene}
  /\ isTransitioning \in BOOLEAN
  /\ stage \subseteq SceneIds
  /\ now \in 0..MaxTime
  /\ updateTarget \in SceneIds \cup {NoScene}
  /\ store \in [isAuthenticated : BOOLEAN, token : Tokens \cup {NoToken}]
  /\ apiToken \in Tokens \cup {NoToken}
  /\ localStorage \in Tokens \cup {NoToken}
  /\ loginPc \in {"idle", "pending"}
  /\ logoutPc \in {"idle", "pending"}
  /\ loggedOut \in BOOLEAN
  /\ page \in {"loaded", "running"}

\* ------------------------------------------------------------------ claims

\* C1 (as stated): a loadScene call made while the transition flag is true
\* fails: its promise rejects, and the call is not accepted.
C1_RejectedWithError ==
  [][\A c \in CallIds :
       (CallMade(c) /\ isTransitioning)
         => (calls'[c].result = "rejected" /\ ~calls'[c].accepted)]_vars

\* C1 (amended): a loadScene call made while the transition flag is true
\* returns normally (its promise resolves, after a console warning) without
\* being accepted and without changing anything else; it is not queued: a
\* call that has returned never becomes active again.
C1_IgnoredNotQueued ==
  [][\A c \in CallIds :
       /\ (CallMade(c) /\ isTransitioning)
            => /\ calls'[c] = Settled(FALSE, "resolved", "none")
               /\ \A o \in CallIds \ {c} : calls'[o] = calls[o]
               /\ UNCHANGED <<scenes, currentScene, isTransitioning, stage,
                              inst, now, updateTarget>>
       /\ (calls[c].pc = "done") => (calls'[c] = calls[c])]_vars

\* a second call has been turned away while the first is suspended in load()
C1_Witness ==
  \E c1, c2 \in CallIds :
    /\ c1 < c2
    /\ InFlight(c1) /\ calls[c1].pc = "load"
    /\ Ignored(c2)
    /\ scenes[calls[c1].name] # NoClass

\* C2 (as stated): loadScene with a name that is not registered always fails
\* with an error, and leaves flag, slot, stage and scenes untouched.
C2_UnknownAlwaysFails ==
  [][\A n \in Names, d \in Durations :
       (LoadScene(n, d) /\ scenes[n] = NoClass)
         => /\ calls'[NextCall].result = "rejected"
            /\ UNCHANGED <<isTransitioning, currentScene, stage, inst>>]_vars

\* C2 (amended): loadScene with a name that is not registered, made while no
\* transition is in flight, throws the not-registered error; made while one
\* is in flight it returns normally like any other re-entrant call.  Either
\* way it is not accepted, the flag is not set, slot and stage are unchanged
\* and no scene is constructed, loaded or unloaded.
C2_UnknownNoEffect ==
  [][\A n \in Names, d \in Durations :
       (LoadScene(n, d) /\ scenes[n] = NoClass)
         => /\ calls'[NextCall] =
                 IF isTransitioning
                 THEN Settled(FALSE, "resolved", "none")
                 ELSE NotRegistered
            /\ UNCHANGED <<isTransitioning, currentScene, stage, inst>>]_vars

\* the not-registered error has been thrown while a scene was installed
C2_Witness ==
  \E c \in CallIds :
    /\ Unknown(c)
    /\ currentScene # NoScene /\ stage = {currentScene}
    /\ ~isTransitioning

\* C3: when an accepted loadScene(n) resolves, the active scene is the
\* instance constructed during that call from the class registered under n
\* when the call was made; it is attached, loaded, at opacity 1, and the
\* flag is false.
C3_ResolvedInstalled ==
  [][/\ \A n \in Names, d \in Durations :
          (LoadScene(n, d) /\ calls'[NextCall].result = "pending"
                           /\ calls'[NextCall].name = n)
            => calls'[NextCall].SceneClass = scenes[n]
     /\ \A c \in CallIds :
          /\ (InFlight(c) /\ calls'[c].result = "pending")
               => /\ calls'[c].SceneClass = calls[c].SceneClass
                  /\ calls'[c].name = calls[c].name
          /\ (calls'[c].newScene # calls[c].newScene
                /\ calls'[c].newScene # NoScene)
               => /\ inst[calls'[c].newScene].phase = "none"
                  /\ inst'[calls'[c].newScene].cls = calls'[c].SceneClass
          /\ (InFlight(c) /\ calls'[c].result = "resolved")
               => LET s == calls[c].newScene
                  IN  /\ s # NoScene
                      /\ currentScene' = s
                      /\ s \in stage'
                      /\ inst'[s].cls = calls[c].SceneClass
                      /\ inst'[s].phase = "loaded"
                      /\ inst'[s].alpha = AlphaOne
                      /\ ~isTransitioning']_vars

\* two transitions have resolved, the later one with a fade, and the scene
\* it constructed is installed
C3_Witness ==
  \E c1, c2 \in CallIds :
    /\ c1 < c2
    /\ calls[c1].accepted /\ calls[c1].result = "resolved"
    /\ calls[c2].accepted /\ calls[c2].result = "resolved"
    /\ currentScene = 2 /\ inst[2].cls = "OverworldScene"
    /\ inst[1].phase = "unloaded" /\ inst[1].alpha = 0
    /\ now >= 2 * FadeMs

\* C4: at most one scene container is attached to the stage.
C4_AtMostOneAttached == Cardinality(stage) <= 1

\* one scene has been replaced by another, which is the only one attached
C4_Witness ==
  /\ currentScene # NoScene
  /\ stage = {currentScene}
  /\ \E s \in SceneIds : inst[s].phase = "unloaded"

\* C5: the flag is true exactly while an accepted call has not returned, and
\* at most one accepted call is in progress.
C5_FlagIffInFlight ==
  /\ isTransitioning <=> (\E c \in CallIds : InFlight(c))
  /\ Cardinality({c \in CallIds : InFlight(c)}) <= 1

\* a transition is in progress after an earlier one has returned and a
\* re-entrant call has been turned away
C5_Witness ==
  \E c1, c2, c3 \in CallIds :
    /\ c1 < c2 /\ c2 < c3
    /\ calls[c1].accepted /\ calls[c1].pc = "done"
    /\ InFlight(c2)
    /\ Ignored(c3)
    /\ isTransitioning

\* C6: within one accepted call that starts with a current scene, the old
\* scene's fade-out is complete when its unload() is invoked; the old
\* container is detached and the slot cleared only once unload() has
\* resolved; the new scene is constructed and its load() invoked only after
\* that; the new container is attached only when load() has resolved.
C6_Positions ==
  \A c \in CallIds :
    InFlight(c) =>
      LET old == calls[c].oldScene
          new == calls[c].newScene
      IN  /\ calls[c].pc \in {"fadeOut", "unload"}
               => /\ old # NoScene /\ new = NoScene
                  /\ currentScene = old /\ old \in stage
          /\ calls[c].pc = "fadeOut" => inst[old].phase # "unloading"
          /\ calls[c].pc = "unload"
               => /\ inst[old].phase = "unloading"
                  /\ calls[c].duration > 0 => inst[old].alpha = 0
          /\ calls[c].pc = "load"
               => /\ new # NoScene /\ inst[new].phase = "loading"
                  /\ new \notin stage /\ currentScene = NoScene
          /\ (new # NoScene /\ old # NoScene)
               => /\ inst[old].phase = "unloaded"
                  /\ old \notin stage /\ currentScene # old
          /\ calls[c].pc = "fadeIn"
               => /\ inst[new].phase = "loaded"
                  /\ currentScene = new /\ new \in stage

C6_Steps ==
  /\ \A s \in SceneIds :
       \* unload() is invoked on s: by a call whose fade-out has finished
       /\ inst'[s].unloads # inst[s].unloads
            => \E c \in CallIds :
                 /\ calls'[c].pc = "unload" /\ calls'[c].oldScene = s
                 /\ calls[c].pc \in {"idle", "fadeOut"}
                 /\ calls'[c].duration > 0
                      => (calls[c].pc = "fadeOut" /\ inst'[s].alpha = 0)
                 /\ inst'[s].unloads = inst[s].unloads + 1
       \* s is constructed: the old scene of that call, if any, is unloaded
       /\ (inst[s].phase = "none" /\ inst'[s].phase # "none")
            => \E c \in CallIds :
                 /\ calls'[c].newScene = s /\ calls'[c].pc = "load"
                 /\ inst'[s].phase = "loading"
                 /\ calls[c].oldScene # NoScene
                      => /\ calls[c].pc = "unload"
                         /\ inst[calls[c].oldScene].phase = "unloading"
                         /\ inst'[calls[c].oldScene].phase = "unloaded"
       \* s is detached: its unload() resolves in this step
       /\ (s \in stage /\ s \notin stage')
            => (inst[s].phase = "unloading" /\ inst'[s].phase = "unloaded")
       \* s is attached: its load() resolves in this step
       /\ (s \notin stage /\ s \in stage')
            => (inst[s].phase = "loading" /\ inst'[s].phase = "loaded")

C7_LoadRejection ==
  [][/\ \A c \in CallIds :
          (calls[c].pc = "load" /\ calls'[c].result # "pending")
            => \/ calls'[c].result = "resolved"
               \/ /\ FailedAt(calls'[c], "load")
                  /\ inst'[calls[c].newScene].phase = "loadFailed"
                  /\ currentScene' = NoScene
                  /\ stage' = {}
                  /\ ~isTransitioning'
     /\ \A n \in Names, d \in Durations :
          (/\ LoadScene(n, d)
           /\ \E c \in CallIds : calls[c].failed = "load"
           /\ Idle
           /\ scenes[n] # NoClass)
            => calls'[NextCall].accepted]_vars

\* a load() rejection was followed by a transition that succeeded
C7_Witness ==
  \E c1, c2 \in CallIds :
    /\ c1 < c2
    /\ FailedAt(calls[c1], "load")
    /\ calls[c2] = Settled(TRUE, "resolved", "none")
    /\ currentScene # NoScene /\ inst[currentScene].phase = "loaded"

C10_NeverStuck ==
  [][/\ \A c \in CallIds :
          Terminates(c)
            => /\ ~isTransitioning'
               /\ Cardinality(stage' \cap {calls[c].oldScene,
                                           calls[c].newScene}) <= 1
     /\ \A n \in Names, d \in Durations :
          (/\ LoadScene(n, d)
           /\ \E c \in CallIds : calls[c].accepted /\ calls[c].pc = "done"
           /\ Idle
           /\ scenes[n] # NoClass)
            => calls'[NextCall].accepted]_vars

\* after a success and an unload() rejection a third call has been accepted,
\* or a call was accepted after a constructor threw
C10_Witness ==
  \/ \E c1, c2, c3 \in CallIds :
       /\ c1 < c2 /\ c2 < c3
       /\ calls[c1] = Settled(TRUE, "resolved", "none")
       /\ FailedAt(calls[c2], "unload")
       /\ calls[c3].accepted
  \/ \E c1, c2 \in CallIds :
       /\ c1 < c2
       /\ FailedAt(calls[c1], "constructor")
       /\ calls[c2].accepted

\* C11: a call turned away while an accepted call is in progress changes
\* nothing but its own outcome: the record of the call in progress, the
\* scenes, the slot, the flag, the stage and the table are as they were, so
\* the transition in flight continues from the same state; no scene is ever
\* constructed for a call that was not accepted.
C11_TurnedAwayLeavesNoTrace ==
  [][/\ \A c \in CallIds :
          (CallMade(c) /\ ~Idle)
            => /\ ~calls'[c].accepted
               /\ calls'[c].pc = "done" /\ calls'[c].newScene = NoScene
               /\ \A o \in CallIds \ {c} : calls'[o] = calls[o]
               /\ \A o \in CallIds : InFlight(o) => InFlight(o)'
               /\ UNCHANGED <<scenes, currentScene, isTransitioning, stage,
                              inst, now, updateTarget>>
     /\ \A s \in SceneIds :
          (inst[s].phase = "none" /\ inst'[s].phase # "none")
            => \E c \in CallIds :
                 /\ calls'[c].accepted /\ calls'[c].newScene = s
                 /\ (InFlight(c) \/ CallMade(c))
                 /\ Cardinality({o \in CallIds : InFlight(o)'}) = 1]_vars

\* the transition that a re-entrant call interrupted has run to its end
C11_Witness ==
  \E c1, c2 \in CallIds :
    /\ c1 < c2
    /\ calls[c1] = Settled(TRUE, "resolved", "none")
    /\ Ignored(c2)
    /\ currentScene = 1 /\ stage = {1} /\ inst[1].phase = "loaded"
    /\ Cardinality(Constructed) = 1
    /\ ~isTransitioning

\* update() called in this state completes and its receiver is s (NoScene:
\* no scene's update is called); it changes nothing else
UpdateReaches(s) ==
  /\ ENABLED Update
  /\ ENABLED (Update /\ updateTarget' = s)
  /\ ~ ENABLED (Update /\ updateTarget' # s)

\* C12: in every state where the slot is empty, update() completes without
\* calling any scene's update, and leaves slot, flag and stage unchanged.
C12_UpdateOnEmptySlot ==
  currentScene = NoScene
    => /\ UpdateReaches(NoScene)
       /\ ~ ENABLED (Update /\ ~ UNCHANGED <<currentScene, isTransitioning,
                                            stage, inst, calls, scenes>>)

\* the slot is empty between the old scene's unload and the installation of
\* the new one, with the new scene already constructed
C12_Witness ==
  \E c \in CallIds :
    /\ InFlight(c) /\ calls[c].pc = "load"
    /\ calls[c].oldScene # NoScene
    /\ inst[calls[c].oldScene].phase = "unloaded"
    /\ inst[calls[c].newScene].phase = "loading"
    /\ currentScene = NoScene
    /\ updateTarget = NoScene

\* C13: when a scene's unload() or load() rejects, or its constructor
\* throws, inside an accepted call, that call rejects with the very error
\* the scene raised; an accepted call resolves only when nothing failed.
C13_ErrorsPropagate ==
  [][\A c \in CallIds :
       /\ UnloadRejected(c)
            => /\ calls'[c].result = "rejected"
               /\ calls'[c].error \in SceneErrors
               /\ calls'[c].error = inst'[calls[c].oldScene].raised
       /\ LoadRejected(c)
            => /\ calls'[c].result = "rejected"
               /\ calls'[c].error \in SceneErrors
               /\ calls'[c].error = inst'[calls[c].newScene].raised
       /\ (Terminates(c) /\ calls'[c].failed = "constructor")
            => /\ calls'[c].result = "rejected"
               /\ calls'[c].error \in SceneErrors
       /\ (Terminates(c) /\ calls'[c].result = "resolved")
            => /\ calls'[c].failed = "none" /\ calls'[c].error = "none"
               /\ calls[c].newScene # NoScene
               /\ inst'[calls[c].newScene].phase = "loaded"
               /\ inst'[calls[c].newScene].raised = "none"
               /\ calls[c].oldScene # NoScene
                    => /\ inst'[calls[c].oldScene].phase = "unloaded"
                       /\ inst'[calls[c].oldScene].raised = "none"]_vars

\* one call has rejected with the error of an unload(), a later one with the
\* different error of a load()
C13_Witness ==
  \E c1, c2 \in CallIds, s1, s2 \in SceneIds :
    /\ c1 < c2
    /\ FailedAt(calls[c1], "unload") /\ calls[c1].error = "ErrA"
    /\ FailedAt(calls[c2], "load") /\ calls[c2].error = "ErrB"
    /\ inst[s1].phase = "unloaded"
    /\ inst[s2].phase = "loadFailed" /\ inst[s2].raised = "ErrB"

\* C14 (as stated): the error of a failed call identifies the step that
\* failed: a call that failed in unload() and a call that failed in load()
\* never reject with the same error.
C14_ErrorNamesStep ==
  \A c1, c2 \in CallIds :
    (/\ calls[c1].accepted /\ calls[c1].failed = "unload"
     /\ calls[c2].accepted /\ calls[c2].failed = "load")
      => calls[c1].error # calls[c2].error

\* C14 (amended): the error of a failed accepted call is one of the scenes'
\* own error values, whatever statement failed: the controller adds no
\* annotation to it.
C14_ErrorNotAnnotated ==
  \A c \in CallIds :
    (calls[c].accepted /\ calls[c].result = "rejected")
      => /\ calls[c].failed \in {"unload", "constructor", "load"}
         /\ calls[c].error \in SceneErrors
         /\ calls[c].error # calls[c].failed

\* an unload() failure and a load() failure have surfaced the same error
C14_Witness ==
  \E c1, c2 \in CallIds :
    /\ FailedAt(calls[c1], "unload")
    /\ FailedAt(calls[c2], "load")
    /\ calls[c1].error = calls[c2].error

\* C15 (as stated): while an accepted call is in progress the slot never
\* holds the scene that call constructed.
C15_NewSceneOnlyAtEnd ==
  \A c \in CallIds :
    (InFlight(c) /\ calls[c].newScene # NoScene)
      => currentScene # calls[c].newScene

\* C15 (amended): the new scene becomes the active scene when its load()
\* resolves, before the fade-in: the slot does not hold it during fade-out,
\* unload and load, and holds it during the whole fade-in.
C15_Positions ==
  \A c \in CallIds :
    InFlight(c) =>
      /\ calls[c].pc \in {"fadeOut", "unload", "load"}
           => (currentScene # calls[c].newScene \/ calls[c].newScene = NoScene)
      /\ calls[c].pc = "fadeIn" => currentScene = calls[c].newScene

C15_Installs ==
  \A c \in CallIds :
    (calls[c].pc = "load" /\ inst'[calls[c].newScene].phase = "loaded")
      => /\ currentScene = NoScene
         /\ currentScene' = calls[c].newScene

C15_NewSceneAfterLoad == [] C15_Positions /\ [][C15_Installs]_vars

\* the new scene is the active scene halfway through its fade-in
C15_Witness ==
  \E c \in CallIds :
    /\ InFlight(c) /\ calls[c].pc = "fadeIn"
    /\ currentScene = calls[c].newScene
    /\ inst[currentScene].alpha > 0 /\ inst[currentScene].alpha < AlphaOne
    /\ calls[c].oldScene # NoScene

\* C16 (as stated): while a fade is running update() reaches no scene.
C16_NoUpdateDuringFade ==
  FadePending => UpdateReaches(NoScene)

\* C16 (amended): while a fade is running update() reaches the active scene:
\* the old scene during its fade-out, the new scene during its fade-in.
C16_UpdateDuringFade ==
  \A c \in CallIds :
    /\ calls[c].pc = "fadeOut"
         => (calls[c].oldScene # NoScene /\ UpdateReaches(calls[c].oldScene))
    /\ calls[c].pc = "fadeIn"
         => (calls[c].newScene # NoScene /\ UpdateReaches(calls[c].newScene))

\* update() has reached the new scene during its fade-in
C16_Witness ==
  \E c \in CallIds :
    /\ calls[c].pc = "fadeIn"
    /\ inst[calls[c].newScene].alpha < AlphaOne
    /\ updateTarget = calls[c].newScene

\* C17: a call with duration 0 never waits in a fade, and the controller
\* writes no opacity on its behalf: a step changes a scene's opacity only
\* for a call in progress with a positive duration, and a scene is created
\* at opacity 1; the old scene is still unloaded before the new one is
\* constructed.
C17_Positions ==
  \A c \in CallIds :
    (InFlight(c) /\ calls[c].duration = 0)
      => /\ calls[c].pc \in {"unload", "load"}
         /\ calls[c].newScene # NoScene
              => inst[calls[c].newScene].alpha = AlphaOne
         /\ (calls[c].pc = "load" /\ calls[c].oldScene # NoScene)
              => inst[calls[c].oldScene].phase = "unloaded"

C17_Writes ==
  \A s \in SceneIds :
    /\ (inst[s].phase = "none" /\ inst'[s].phase # "none")
         => inst'[s].alpha = AlphaOne
    /\ (inst[s].phase # "none" /\ inst'[s].alpha # inst[s].alpha)
         => \E c \in CallIds :
              /\ InFlight(c) /\ calls[c].duration > 0
              /\ s \in {calls[c].oldScene, calls[c].newScene}

C17_NoFadeNoOpacityWrite == [] C17_Positions /\ [][C17_Writes]_vars

\* a transition without fade has replaced one scene by another: the old one
\* was unloaded at full opacity, the new one is installed at full opacity
C17_Witness ==
  /\ Idle
  /\ inst[1].phase = "unloaded" /\ inst[1].alpha = AlphaOne
  /\ currentScene = 2 /\ inst[2].phase = "loaded" /\ inst[2].alpha = AlphaOne
  /\ stage = {2}

\* C18: every scene an accepted call constructs is a new object, made from
\* the class the call looked up, also when that class is the one of the
\* active scene; a scene is installed only by the call that constructed it,
\* and only once.
C18_FreshInstance ==
  [][/\ \A c \in CallIds :
          (calls[c].pc # "load" /\ calls'[c].pc = "load")
            => LET s == calls'[c].newScene
               IN  /\ s \in SceneIds \ Constructed
                   /\ Constructed' = Constructed \cup {s}
                   /\ s # currentScene /\ s \notin stage
                   /\ inst'[s].cls = calls'[c].SceneClass
                   /\ inst'[s].phase = "loading"
                   /\ inst'[s].unloads = 0
     /\ (currentScene' # currentScene /\ currentScene' # NoScene)
          => /\ inst[currentScene'].phase = "loading"
             /\ \E c \in CallIds :
                  /\ InFlight(c) /\ calls[c].pc = "load"
                  /\ calls[c].newScene = currentScene'
     /\ \A s \in SceneIds :
          inst[s].phase \in {"loaded", "unloading", "unloaded",
                             "unloadFailed", "loadFailed"}
            => inst'[s].phase # "loading"]_vars

\* the scene registered as "menu" was replaced by a second instance of the
\* same class through the same name
C18_Witness ==
  /\ scenes["overworld"] = NoClass
  /\ inst[1].cls = "MenuScene" /\ inst[1].phase = "unloaded"
  /\ inst[2].cls = "MenuScene" /\ inst[2].phase = "loaded"
  /\ currentScene = 2 /\ stage = {2}

\* C19: in every state registerScene(name, class) completes, and changes
\* nothing but the table entry of that name.
C19_PureRegistration ==
  \A n \in Names, k \in Classes :
    /\ ENABLED RegisterScene(n, k)
    /\ ~ ENABLED (/\ RegisterScene(n, k)
                  /\ ~ /\ UNCHANGED <<currentScene, isTransitioning, stage,
                                      inst, calls, now, updateTarget>>
                       /\ \A m \in Names \ {n} : scenes'[m] = scenes[m])

\* a name was registered again while a transition to it was in progress
C19_Witness ==
  \E c \in CallIds :
    /\ InFlight(c) /\ calls[c].pc = "load"
    /\ scenes[calls[c].name] # calls[c].SceneClass
    /\ isTransitioning
    /\ inst[calls[c].newScene].cls = calls[c].SceneClass

\* C20: registering a name again replaces its class without error and
\* leaves the other names alone; a call accepted afterwards takes the class
\* the table holds then, and constructs its scene from it.
C20_Overwrite ==
  \A n \in Names, k \in Classes :
    ENABLED (/\ RegisterScene(n, k)
             /\ scenes'[n] = k
             /\ \A m \in Names \ {n} : scenes'[m] = scenes[m])

C20_UsesTable ==
  /\ \A n \in Names, d \in Durations :
       (LoadScene(n, d) /\ calls'[NextCall].pc \notin {"idle", "done"})
         => /\ calls'[NextCall].name = n
            /\ calls'[NextCall].SceneClass = scenes[n]
  /\ \A c \in CallIds :
       (calls[c].pc # "load" /\ calls'[c].pc = "load")
         => inst'[calls'[c].newScene].cls = calls'[c].SceneClass
  /\ \A c \in CallIds :
       (InFlight(c) /\ InFlight(c)')
         => calls'[c].SceneClass = calls[c].SceneClass

C20_LatestRegistrationWins == [] C20_Overwrite /\ [][C20_UsesTable]_vars

\* "menu", the only name ever registered, gave a MenuScene first and an
\* OverworldScene after it was registered again
C20_Witness ==
  /\ scenes["overworld"] = NoClass
  /\ scenes["menu"] = "OverworldScene"
  /\ inst[1].cls = "MenuScene"
  /\ inst[2].cls = "OverworldScene" /\ currentScene = 2

\* C21: nothing but the settlement of load() ends the wait for it.  While a
\* call waits for its new scene's load(), the flag is true and the slot is
\* empty; a step leaves that wait only by load() resolving or rejecting;
\* and every call made meanwhile is turned away by the guard.
C21_Waiting ==
  \A c \in CallIds :
    calls[c].pc = "load"
      => /\ isTransitioning
         /\ currentScene = NoScene
         /\ inst[calls[c].newScene].phase = "loading"

C21_OnlySettlementEnds ==
  \A c \in CallIds :
    calls[c].pc = "load"
      => /\ calls'[c] # calls[c]
              => inst'[calls[c].newScene].phase \in {"loaded", "loadFailed"}
         /\ inst'[calls[c].newScene].phase = "loading"
              => /\ calls'[c] = calls[c]
                 /\ isTransitioning' /\ currentScene' = NoScene
         /\ \A o \in CallIds : CallMade(o) => Ignored(o)'

C21_NoTimeout == [] C21_Waiting /\ [][C21_OnlySettlementEnds]_vars

\* a load() is still pending after every other call of the behaviour was
\* made and turned away
C21_Witness ==
  /\ calls[1].pc = "load"
  /\ \A o \in CallIds \ {1} : Ignored(o)
  /\ isTransitioning /\ currentScene = NoScene

\* C22: with a positive duration the fade-out never raises the old scene's
\* opacity, keeps it between 0 and its starting value, and has brought it
\* to exactly 0 when unload() is invoked; the fade-in starts the new scene
\* at 0, never lowers its opacity, keeps it between 0 and 1, and has
\* brought it to exactly 1 when the call resolves, however late a frame is.
C22_Range ==
  \A c \in CallIds :
    /\ calls[c].pc = "fadeOut"
         => /\ 0 <= inst[calls[c].oldScene].alpha
            /\ inst[calls[c].oldScene].alpha <= calls[c].startAlpha
    /\ calls[c].pc = "fadeIn"
         => /\ 0 <= inst[calls[c].newScene].alpha
            /\ inst[calls[c].newScene].alpha <= AlphaOne

C22_Steps ==
  \A c \in CallIds :
    /\ calls'[c].pc = "fadeOut"
         => inst'[calls'[c].oldScene].alpha <= inst[calls'[c].oldScene].alpha
    /\ calls[c].pc = "fadeOut"
         => /\ inst'[calls[c].oldScene].alpha <= inst[calls[c].oldScene].alpha
            /\ 0 <= inst'[calls[c].oldScene].alpha
            /\ calls'[c].pc # "fadeOut"
                 => /\ calls'[c].pc = "unload"
                    /\ inst'[calls[c].oldScene].alpha = 0
                    /\ inst'[calls[c].oldScene].phase = "unloading"
    /\ (calls[c].pc # "fadeIn" /\ calls'[c].pc = "fadeIn")
         => inst'[calls'[c].newScene].alpha = 0
    /\ calls[c].pc = "fadeIn"
         => /\ inst'[calls[c].newScene].alpha >= inst[calls[c].newScene].alpha
            /\ inst'[calls[c].newScene].alpha <= AlphaOne
            /\ calls'[c].pc # "fadeIn"
                 => /\ calls'[c].result = "resolved"
                    /\ inst'[calls[c].newScene].alpha = AlphaOne
    /\ (calls[c].pc = "unload" /\ calls[c].duration > 0)
         => inst[calls[c].oldScene].alpha = 0

C22_FadeRamps == [] C22_Range /\ [][C22_Steps]_vars

\* the only call of the behaviour faded its scene in, and its last frame
\* arrived after the duration had elapsed
C22_Witness ==
  /\ calls[1].result = "resolved" /\ calls[1].accepted
  /\ calls[2].result = "none"
  /\ currentScene = 1 /\ inst[1].alpha = AlphaOne
  /\ now > FadeMs

\* C23: the step that attaches a new scene's container leaves it at opacity
\* 0 and in the fade-in when the call fades, at opacity 1 when it does not;
\* an attached new scene of a fading call is opaque only in the fade-in.
C23_Attached ==
  \A c \in CallIds :
    (InFlight(c) /\ calls[c].duration > 0 /\ calls[c].newScene \in stage)
      => /\ calls[c].pc = "fadeIn"
         /\ inst[calls[c].newScene].alpha > 0 => now > calls[c].startTime

C23_Attaches ==
  \A s \in SceneIds :
    (s \notin stage /\ s \in stage')
      => \E c \in CallIds :
           /\ calls[c].pc = "load" /\ calls[c].newScene = s
           /\ IF calls[c].duration > 0
              THEN inst'[s].alpha = 0 /\ calls'[c].pc = "fadeIn"
              ELSE inst'[s].alpha = AlphaOne /\ calls'[c].result = "resolved"

C23_AttachedTransparent == [] C23_Attached /\ [][C23_Attaches]_vars

\* a new scene is attached, transparent, at the start of its fade-in
C23_Witness ==
  \E c \in CallIds :
    /\ calls[c].pc = "fadeIn"
    /\ calls[c].newScene \in stage
    /\ inst[calls[c].newScene].alpha = 0
    /\ now = calls[c].startTime

\* C24: a call with an unregistered name is turned away by the guard when
\* the flag is true (it returns normally and changes nothing else), and
\* throws the not-registered error when the flag is false.
C24_GuardBeforeLookup ==
  [][\A n \in Names, d \in Durations :
       (LoadScene(n, d) /\ scenes[n] = NoClass)
         => /\ UNCHANGED <<scenes, currentScene, isTransitioning, stage,
                           inst, now, updateTarget>>
            /\ \A o \in CallIds \ {NextCall} : calls'[o] = calls[o]
            /\ IF isTransitioning
               THEN calls'[NextCall] = Settled(FALSE, "resolved", "none")
               ELSE calls'[NextCall] = NotRegistered]_vars

\* an unregistered name was refused with the error before the transition,
\* and is turned away now that one is in progress
C24_Witness ==
  \E c, o \in CallIds, n \in Names :
    /\ Unknown(o) /\ InFlight(c) /\ o < c
    /\ scenes[n] = NoClass
    /\ NextCall \in CallIds
    /\ ENABLED (/\ LoadScene(n, 0)
                /\ calls'[NextCall] = Settled(FALSE, "resolved", "none"))

C26_UpdateWindow ==
  \A s \in SceneIds :
    ENABLED (Update /\ updateTarget' = s) => inst[s].phase = "loaded"

\* C27: unload() is invoked at most once on every scene instance.
C27_UnloadAtMostOnce ==
  \A s \in SceneIds : inst[s].unloads <= 1

\* C28: a scene whose load() rejected is never attached, never in the slot,
\* never unloaded and never reached by update(), and it stays failed; a
\* call whose constructor threw leaves no scene behind, the slot and the
\* stage empty.
C28_Abandoned ==
  \A s \in SceneIds :
    inst[s].phase = "loadFailed"
      => /\ s \notin stage
         /\ currentScene # s
         /\ inst[s].unloads = 0
         /\ updateTarget # s
         /\ ~ ENABLED (Update /\ updateTarget' = s)
         /\ \A c \in CallIds : s \notin {calls[c].oldScene, calls[c].newScene}

C28_StaysAbandoned ==
  /\ \A s \in SceneIds :
       inst[s].phase = "loadFailed" => inst'[s] = inst[s]
  /\ \A c \in CallIds :
       (Terminates(c) /\ FailedAt(calls'[c], "constructor"))
         => /\ Constructed' = Constructed
            /\ currentScene' = NoScene /\ stage' = {}

C28_FailedSceneAbandoned == [] C28_Abandoned /\ [][C28_StaysAbandoned]_vars

\* a scene's load() rejected, and a later call installed another scene
C28_Witness ==
  /\ inst[1].phase = "loadFailed"
  /\ inst[2].phase = "loaded" /\ currentScene = 2 /\ stage = {2}
  /\ updateTarget = 2

\* the clock of the model has stopped short of the end of call c's fade
ClockStopped(c) ==
  /\ calls[c].pc \in {"fadeOut", "fadeIn"}
  /\ now = MaxTime
  /\ now - calls[c].startTime < calls[c].duration

\* C29: when promises settle, frames are delivered and the clock advances,
\* every accepted call returns or throws and the flag is false again; a fade
\* whose duration has elapsed ends at its next frame.  (A fade cut short by
\* the last value of the model's clock is the one wait left out.)
C29_Terminates ==
  \A c \in CallIds :
    InFlight(c) ~> (\/ ~InFlight(c) /\ ~isTransitioning
                    \/ ClockStopped(c))

\* a call that went through both fades has returned
C29_Witness ==
  /\ Idle /\ ~isTransitioning
  /\ calls[2].accepted /\ calls[2].result = "resolved"
  /\ inst[1].phase = "unloaded" /\ inst[1].alpha = 0
  /\ currentScene = 2 /\ inst[2].alpha = AlphaOne

\* C30: once logout() has returned, and until a login succeeds, the store
\* says not authenticated and the token is gone from ApiClient and from
\* localStorage, whether the logout request succeeded or failed; a Game.init
\* run in that situation does not find the user authenticated and loads
\* the menu scene.
C30_LoggedOut ==
  loggedOut
    => /\ ~ store.isAuthenticated
       /\ ~ IsAuthenticated
       /\ localStorage = NoToken

C30_InitInMenu ==
  (loggedOut /\ page = "loaded" /\ page' = "running")
    => /\ ~ store'.isAuthenticated
       /\ calls'[1].pc = "load" => calls'[1].name = "menu"

C30_LogoutConsistency == [] C30_LoggedOut /\ [][C30_InitInMenu]_vars
====
